---------------------------- MODULE Spec2Model ----------------------------
(***************************************************************************)
(* Model of the interaction core of the solar-neighbourhood visualizer     *)
(* (src/src/visualization.py, class PyGameVisualizer): the star-hopping    *)
(* route planner, the measurement toggle, and the view-slot save/load.     *)
(*                                                                         *)
(* Numbers.  Lengths are fixed-point integers, one unit = 0.01 light-year  *)
(* (so 2.0 ly = 200, 0.5 ly = 50, 0.05 ly = 5).  The catalogs below place  *)
(* the stars so that every pairwise distance is a whole number of units,   *)
(* hence calculate_distance is exact on them.  Products with the float     *)
(* factors 0.7 and 0.6 and the quotients in the score are compared after   *)
(* cross-multiplication, i.e. in exact arithmetic.                         *)
(***************************************************************************)
EXTENDS Integers, Sequences, FiniteSets, TLC

VARIABLES
    catalog,              \* index of the loaded catalog (stars_df), fixed for the session
    selected_star,        \* self.selected_star: a name or None
    rotation_center,      \* self.rotation_center: <<x, y, z>>
    rotation_center_star, \* self.rotation_center_star: name of the referenced row or None
    camera_pos,           \* self.camera_pos: <<px, py>>, in pixels
    rotation,             \* <<self.rotation_x, self.rotation_y, self.rotation_z>>, in 0.01 rad
    zoom,                 \* self.zoom, in thousandths of a pixel per light-year
    show,                 \* the five view toggles show_*
    max_distance,         \* self.max_distance
    distance_lines,       \* self.distance_lines: sequence of measurements
    star_hop_routes,      \* self.star_hop_routes: sequence of routes
    route_cache,          \* self.route_cache: key (a tuple of names) -> entry
    files,                \* saved_views/view_<slot>.json: slot -> view_data (<<>> when missing)
    raised,               \* the exception that left handle_input, or None
    screen_coords_cache,  \* self.screen_coords_cache: entries [name, pos] in insertion order
    message,              \* the status string _save_view / _load_view returned last, or None
    new_route,            \* history: <<r>> once the planner has returned r, <<>> before
    saved,                \* history: slot -> the live values when the slot was last saved here
    loaded,               \* history: the slot the last action loaded, else 0
    m_history             \* history: distance_lines before each of the latest toggles in a row

view == <<camera_pos, rotation, zoom, show, max_distance>>
pivot == <<rotation_center, rotation_center_star>>
display == <<screen_coords_cache, message>>
history == <<new_route, saved, loaded, m_history>>

vars == <<catalog, selected_star, rotation_center, rotation_center_star, camera_pos,
          rotation, zoom, show, max_distance, distance_lines, star_hop_routes,
          route_cache, files, raised, screen_coords_cache, message, new_route, saved,
          loaded, m_history>>

\* Python's None (names are strings, so None is a string no star is called).
None == "<None>"

----------------------------------------------------------------------------
(* Catalogs (the rows of stars_df, in row order).                          *)

\* A row with its absolute magnitude, in hundredths of a magnitude.
MkStarMag(n, x, y, z, d, m) ==
    [name |-> n, x |-> x, y |-> y, z |-> z, distance_ly |-> d, abs_magnitude |-> m]

\* A row without a magnitude in the source data: the loader's default 10.0.
MkStar(n, x, y, z, d) == MkStarMag(n, x, y, z, d, 1000)

\* Sun, eleven stars half a light-year apart on the x axis, and the binary
\* Far / Far B (0.01 ly apart) ten light-years out.
LineCatalog ==
    <<MkStar("Sun", 0, 0, 0, 0),
      MkStar("L01", 50, 0, 0, 50),   MkStar("L02", 100, 0, 0, 100),
      MkStar("L03", 150, 0, 0, 150), MkStar("L04", 200, 0, 0, 200),
      MkStar("L05", 250, 0, 0, 250), MkStar("L06", 300, 0, 0, 300),
      MkStar("L07", 350, 0, 0, 350), MkStar("L08", 400, 0, 0, 400),
      MkStar("L09", 450, 0, 0, 450), MkStar("L10", 500, 0, 0, 500),
      MkStar("L11", 550, 0, 0, 550),
      MkStar("Far B", 1001, 0, 0, 1001), MkStar("Far", 1000, 0, 0, 1000)>>

\* A star behind the Sun as seen from the destination.
DetourCatalog ==
    <<MkStar("Sun", 0, 0, 0, 0), MkStar("Back", 0 - 600, 0, 0, 600),
      MkStar("Far", 1000, 0, 0, 1000)>>

\* Three stars within two light-years of each other.
NearCatalog ==
    <<MkStar("Sun", 0, 0, 0, 0), MkStar("Mid", 60, 0, 0, 60),
      MkStar("Near", 150, 0, 0, 150)>>

\* A 3-4-5 triangle off the x axis.
TriangleCatalog ==
    <<MkStar("Sun", 0, 0, 0, 0), MkStar("Beta", 0, 300, 0, 300),
      MkStar("Alpha", 0, 300, 400, 500)>>

\* The Sun and one star.
PairCatalog ==
    <<MkStar("Sun", 0, 0, 0, 0), MkStar("Far", 1000, 0, 0, 1000)>>

\* Stars to click on, within 4 ly: a star of the default magnitude on the
\* line of sight of the Sun in the constructed view, the Sun (magnitude
\* 5.0), and a dim star (15.0) 0.2 ly beside it.
HitCatalog ==
    <<MkStar("Alpha", 0, 0, 400, 400), MkStarMag("Sun", 0, 0, 0, 0, 500),
      MkStarMag("Dim", 20, 0, 0, 20, 1500)>>

\* A star just behind the Sun as seen from Far, and two stars mirrored about
\* the line from the Sun to Far: from the Sun, the hop to Behind scores
\* lower than the hops to Up and Down, which score the same.
TieCatalog ==
    <<MkStar("Sun", 0, 0, 0, 0), MkStar("Behind", 0 - 60, 0, 0, 60),
      MkStar("Up", 140, 480, 0, 500), MkStar("Down", 140, 0 - 480, 0, 500),
      MkStar("Far", 1040, 0, 0, 1040)>>

\* The Sun and the two components of a binary four light-years out, which
\* the loader gives the same coordinates: the dim component (15.0) is the
\* first row, the bright one (5.0) the second.
BinaryCatalog ==
    <<MkStarMag("Sun", 0, 0, 0, 0, 500), MkStarMag("Binary B", 400, 0, 0, 400, 1500),
      MkStarMag("Binary A", 400, 0, 0, 400, 500)>>

Catalogs == <<LineCatalog, DetourCatalog, NearCatalog, TriangleCatalog, PairCatalog,
              HitCatalog, TieCatalog, BinaryCatalog>>

stars_df == Catalogs[catalog]

Names(cat) == {cat[i].name : i \in 1..Len(cat)}

\* self.star_lookup_cache[name] (a KeyError when the name is not a key).
Lookup(cat, n) == cat[CHOOSE i \in 1..Len(cat) : cat[i].name = n]

----------------------------------------------------------------------------
(* Distances.                                                              *)

Abs(a) == IF a < 0 THEN 0 - a ELSE a

RECURSIVE SqrtIter(_, _)
SqrtIter(n, x) ==
    LET y == (x + (n \div x)) \div 2
    IN  IF y >= x THEN x ELSE SqrtIter(n, y)

\* math.sqrt, rounded down to a whole unit.
Sqrt(n) == IF n = 0 THEN 0 ELSE SqrtIter(n, n)

calculate_distance(star1, star2) ==
    Sqrt((star2.x - star1.x) * (star2.x - star1.x)
         + (star2.y - star1.y) * (star2.y - star1.y)
         + (star2.z - star1.z) * (star2.z - star1.z))

\* "abs(star[c] - rotation_center[c]) < 0.0001" on all three axes; 0.0001 ly
\* is a hundredth of a unit.
CoordMatch(star, rc) ==
    /\ Abs(star.x - rc[1]) * 100 < 1
    /\ Abs(star.y - rc[2]) * 100 < 1
    /\ Abs(star.z - rc[3]) * 100 < 1

\* The first row of stars_df at the rotation centre, or dflt when there is none.
FirstAtCenter(cat, rc, dflt) ==
    LET hits == {i \in 1..Len(cat) : CoordMatch(cat[i], rc)}
    IN  IF hits = {} THEN dflt
        ELSE cat[CHOOSE i \in hits : \A j \in hits : i <= j].name

----------------------------------------------------------------------------
(* The route planner, _calculate_star_hop_route.                           *)

\* A faulty direct_hop_limit: 1.2 ly.
direct_hop_limit_low == 100 + 20

\* "if direct_distance < 2.0": closer stars are joined directly.
direct_hop_limit == 200

max_detour_factor == 2

\* A faulty max_hops: one iteration more.
max_hops_plus_one == 10 + 1

max_hops == 10

\* A faulty min_hop_distance: 0.01 ly.
min_hop_distance_short == 0 + 1

\* "hop_distance < 0.5": too short a hop (likely a double star).
min_hop_distance == 50

\* "final_hop_distance >= 0.05": the destination is appended after the loop.
final_hop_limit == 5

\* hop_distance > max_hop_distance, with max_hop_distance = direct_distance * 0.7.
TooLong(hop_distance, direct_distance) == hop_distance * 10 > direct_distance * 7

\* dist_to_end < max_hop_distance * 0.6.
CloseEnough(dist_to_end, direct_distance) == dist_to_end * 100 < direct_distance * 42

\* The name the planner starts from: the referenced row, else the first row
\* at the rotation centre, else None.
PlannerOrigin(cat, rcs, rc) ==
    IF rcs # None THEN rcs ELSE FirstAtCenter(cat, rc, None)

\* A faulty candidate_stars: the destination is not excluded.
candidate_stars_with_destination(cat, origin, sel, maxd) ==
    SelectSeq(cat, LAMBDA star : /\ star.name # origin
                                 /\ star.distance_ly <= maxd)

\* A faulty candidate_stars: the distance filter is not applied.
candidate_stars_unfiltered(cat, origin, sel, maxd) ==
    SelectSeq(cat, LAMBDA star : /\ star.name # origin
                                 /\ star.name # sel)

\* candidate_stars: every row but the two ends, inside the distance filter.
candidate_stars(cat, origin, sel, maxd) ==
    SelectSeq(cat, LAMBDA star : /\ star.name # origin
                                 /\ star.name # sel
                                 /\ star.distance_ly <= maxd)

\* total_distance: the length of the route walked so far.
RECURSIVE total_distance(_, _)
total_distance(cat, route) ==
    IF Len(route) < 2 THEN 0
    ELSE total_distance(cat, SubSeq(route, 1, Len(route) - 1))
         + calculate_distance(Lookup(cat, route[Len(route) - 1]),
                              Lookup(cat, route[Len(route)]))

\* Six times the score of a hop (the score has the quotients /2 and /3):
\*   closer:  hop/2 - ((d - t)/d) * d/3        not closer:  hop + 2*(t - d)
Score6(hop_distance, to_end_distance, dist_to_end) ==
    IF to_end_distance < dist_to_end
    THEN 3 * hop_distance - 2 * (dist_to_end - to_end_distance)
    ELSE 6 * hop_distance + 12 * (to_end_distance - dist_to_end)

\* A faulty scan: the first hop that gets closer does not clear the best
\* hop found before it.
RECURSIVE ScanHops_keeps_best(_, _, _, _, _, _, _, _)
ScanHops_keeps_best(cat, cands, i, visited, current, end_star, direct, best) ==
    IF i > Len(cands) THEN best
    ELSE
      LET hop_star == cands[i]
          dist_to_end == calculate_distance(current, end_star)
          hop_distance == calculate_distance(current, hop_star)
          to_end_distance == calculate_distance(hop_star, end_star)
          gets_closer == to_end_distance < dist_to_end
          found == best.found \/ gets_closer
          score == Score6(hop_distance, to_end_distance, dist_to_end)
          next == IF hop_star.name \in visited THEN best
                  ELSE IF hop_distance < min_hop_distance \/ TooLong(hop_distance, direct)
                       THEN best
                  ELSE IF best.found /\ ~gets_closer THEN best
                  ELSE IF best.hop = None \/ score < best.score
                       THEN [hop |-> hop_star.name, score |-> score, found |-> found]
                       ELSE [hop |-> best.hop, score |-> best.score, found |-> found]
      IN  ScanHops_keeps_best(cat, cands, i + 1, visited, current, end_star, direct, next)

\* One pass of "for hop_star in candidate_stars" from row i on; best is
\* [hop, score, found]: best_hop (None while best_score is infinite),
\* best_score and found_closer_hop.
RECURSIVE ScanHops(_, _, _, _, _, _, _, _)
ScanHops(cat, cands, i, visited, current, end_star, direct, best) ==
    IF i > Len(cands) THEN best
    ELSE
      LET hop_star == cands[i]
          dist_to_end == calculate_distance(current, end_star)
          hop_distance == calculate_distance(current, hop_star)
          to_end_distance == calculate_distance(hop_star, end_star)
          gets_closer == to_end_distance < dist_to_end
          cleared == IF gets_closer /\ ~best.found
                     THEN [hop |-> None, score |-> 0, found |-> TRUE]
                     ELSE best
          score == Score6(hop_distance, to_end_distance, dist_to_end)
          next == IF hop_star.name \in visited THEN best
                  ELSE IF hop_distance < min_hop_distance \/ TooLong(hop_distance, direct)
                       THEN best
                  ELSE IF best.found /\ ~gets_closer THEN best
                  ELSE IF cleared.hop = None \/ score < cleared.score
                       THEN [hop |-> hop_star.name, score |-> score, found |-> cleared.found]
                       ELSE cleared
      IN  ScanHops(cat, cands, i + 1, visited, current, end_star, direct, next)

best_hop(cat, cands, visited, current, end_star, direct) ==
    ScanHops(cat, cands, 1, visited, current, end_star, direct,
             [hop |-> None, score |-> 0, found |-> FALSE]).hop

\* "for _ in range(max_hops)", from iteration k on.  visited is the route
\* itself: the origin and every hop appended.
RECURSIVE HopLoop(_, _, _, _, _, _)
HopLoop(cat, cands, sel, direct, route, k) ==
    IF k >= max_hops THEN route
    ELSE
      LET end_star == Lookup(cat, sel)
          current == Lookup(cat, route[Len(route)])
          dist_to_end == calculate_distance(current, end_star)
          visited == {route[j] : j \in 1..Len(route)}
          hop == best_hop(cat, cands, visited, current, end_star, direct)
      IN  IF CloseEnough(dist_to_end, direct) THEN Append(route, sel)
          ELSE IF total_distance(cat, route) > direct * max_detour_factor - dist_to_end
               THEN Append(route, sel)
          ELSE IF hop = None THEN Append(route, sel)
          ELSE HopLoop(cat, cands, sel, direct, Append(route, hop), k + 1)

\* A faulty FinishRoute: the destination is not appended after the loop.
FinishRouteNoAppend(cat, route, sel) == route

\* "Make sure end point is in the route, but check for very short final hop".
FinishRoute(cat, route, sel) ==
    IF route[Len(route)] # sel
    THEN IF calculate_distance(Lookup(cat, route[Len(route)]), Lookup(cat, sel))
              >= final_hop_limit
         THEN Append(route, sel)
         ELSE route
    ELSE route

\* The planner raises KeyError at "end_star = self.star_lookup_cache[selected_star]".
RouteRaises(cat, sel, rcs, rc) ==
    LET origin == PlannerOrigin(cat, rcs, rc)
    IN  sel # None /\ origin # None /\ origin # sel /\ sel \notin Names(cat)

\* The value the planner returns when it does not raise.
calculate_star_hop_route(cat, sel, rcs, rc, maxd) ==
    LET origin == PlannerOrigin(cat, rcs, rc)
        direct == calculate_distance(Lookup(cat, origin), Lookup(cat, sel))
    IN  IF sel = None THEN <<>>
        ELSE IF origin = None \/ origin = sel THEN <<>>
        ELSE IF direct < direct_hop_limit THEN <<origin, sel>>
        ELSE FinishRoute(cat,
                 HopLoop(cat, candidate_stars(cat, origin, sel, maxd), sel, direct,
                         <<origin>>, 0),
                 sel)

\* "key in self.route_cache and 'distance' in self.route_cache[key]".
HasDistance(cache, key) == key \in DOMAIN cache /\ "distance" \in DOMAIN cache[key]

\* "self.route_cache[key] = value": the key is added, or its entry replaced.
Store(cache, key, value) == [k \in DOMAIN cache \cup {key} |-> IF k = key THEN value ELSE cache[k]]

\* A faulty AddDistance: only the key's own order is looked up.
AddDistance_one_order(cache, cat, p) ==
    IF HasDistance(cache, <<p[1], p[2]>>) THEN cache
    ELSE Store(cache, <<p[1], p[2]>>,
               [distance |-> calculate_distance(Lookup(cat, p[1]), Lookup(cat, p[2]))])

\* "Calculate and cache": the distance of two rows is stored under (a, b)
\* unless one of the two orders already holds a distance.
AddDistance(cache, cat, p) ==
    IF HasDistance(cache, <<p[1], p[2]>>) \/ HasDistance(cache, <<p[2], p[1]>>) THEN cache
    ELSE Store(cache, <<p[1], p[2]>>,
               [distance |-> calculate_distance(Lookup(cat, p[1]), Lookup(cat, p[2]))])

\* route_cache after the planner: the direct distance is looked up, and
\* stored when missing, once both ends are found in the lookup cache.
RouteCacheAfterPlan(cache, cat, sel, rcs, rc) ==
    LET origin == PlannerOrigin(cat, rcs, rc)
    IN  IF sel = None \/ origin = None \/ origin = sel THEN cache
        ELSE AddDistance(cache, cat, <<origin, sel>>)

----------------------------------------------------------------------------
(* Bounds of the model.                                                    *)

\* Longest distance_lines list the toggle grows.
MaxLines == 2

\* Longest star_hop_routes list.
MaxRoutes == 2

\* Longest list of events handle_input is called with.
MaxBatch == 2

\* View slots modelled (the keys F1.. of the save and load handlers).
MaxSlot == 1

\* The camera inputs explored: pan steps, turns and wheel notches away from
\* the constructed view.
MaxPan == 1

MaxTurn == 1

MaxWheel == 1

\* The widest distance filter the "+" key is followed to, in light-years.
MaxFilter == 4

Slots == 1..MaxSlot

----------------------------------------------------------------------------
(* Measurements and their JSON form.                                       *)

\* A measurement is a Python tuple when the toggle made it and a Python list
\* when json.load made it; a tuple never equals a list.
Tuple(a, b) == [kind |-> "tuple", from |-> a, to |-> b]
List(a, b) == [kind |-> "list", from |-> a, to |-> b]

\* The (from, to) names of a measurement, whatever its Python type.
Pair(m) == <<m.from, m.to>>

Pairs(lines) == [i \in 1..Len(lines) |-> Pair(lines[i])]

\* list.remove(m): drops the first element equal to m.
Remove(lines, m) ==
    LET i == CHOOSE k \in 1..Len(lines) :
                 lines[k] = m /\ \A j \in 1..(k - 1) : lines[j] # m
    IN  SubSeq(lines, 1, i - 1) \o SubSeq(lines, i + 1, Len(lines))

InList(lines, m) == \E k \in 1..Len(lines) : lines[k] = m

\* json.dump followed by json.load: every tuple comes back as a list.
JsonLines(lines) == [i \in 1..Len(lines) |-> List(lines[i].from, lines[i].to)]

Get(d, k, dflt) == IF k \in DOMAIN d THEN d[k] ELSE dflt

\* A faulty toggle_measurement: a new measurement goes to the front.
toggle_measurement_in_front(lines, m) ==
    IF InList(lines, m) THEN Remove(lines, m) ELSE <<m>> \o lines

\* "if measurement in self.distance_lines: remove else: append".
toggle_measurement(lines, m) ==
    IF InList(lines, m) THEN Remove(lines, m) ELSE Append(lines, m)

----------------------------------------------------------------------------
(* State after construction (PyGameVisualizer.__init__, StarApp.__init__). *)

DefaultShow ==
    [star_names |-> FALSE, galactic_plane |-> FALSE, coordinate_grid |-> FALSE,
     galactic_projections |-> FALSE, multiple_star_inset |-> TRUE]

NoFiles == [n \in Slots |-> <<>>]

\* What __init__ sets whatever the catalog.
Fresh ==
    /\ camera_pos = <<0, 0>>
    /\ rotation = <<0, 0, 0>>
    /\ zoom = 40000
    /\ show = DefaultShow
    /\ distance_lines = <<>>
    /\ star_hop_routes = <<>>
    /\ route_cache = <<>>
    /\ raised = None
    /\ screen_coords_cache = <<>>
    /\ message = None
    /\ new_route = <<>>
    /\ saved = [n \in Slots |-> <<>>]
    /\ loaded = 0
    /\ m_history = <<>>

Constructed ==
    /\ selected_star = None
    /\ rotation_center = <<0, 0, 0>>
    /\ rotation_center_star = None
    /\ Fresh

----------------------------------------------------------------------------
(* Handlers.  An exception that leaves handle_input ends StarApp.run, so   *)
(* every handler needs raised = None.                                      *)

\* A faulty _center_on_star: the pan offset is kept.
center_on_star_keeps_pan(star_coords, star_obj) ==
    /\ rotation_center' = star_coords
    /\ rotation_center_star' =
           IF star_obj # None THEN star_obj
           ELSE FirstAtCenter(stars_df, star_coords, None)
    /\ camera_pos' = camera_pos

\* _center_on_star(star_coords, star_obj): star_obj is a name or None.
center_on_star(star_coords, star_obj) ==
    /\ rotation_center' = star_coords
    /\ rotation_center_star' =
           IF star_obj # None THEN star_obj
           ELSE FirstAtCenter(stars_df, star_coords, None)
    /\ camera_pos' = <<0, 0>>

Coords(star) == <<star.x, star.y, star.z>>

\* The stars a click can hit: those inside the distance filter.
Clickable == {n \in Names(stars_df) : Lookup(stars_df, n).distance_ly <= max_distance}

\* Left click that hits `target` (None: nothing under the pointer).
ClickSelect(target) ==
    /\ raised = None
    /\ selected_star' = target
    /\ loaded' = 0 /\ m_history' = <<>>
    /\ UNCHANGED <<catalog, display, pivot, view, distance_lines, star_hop_routes, route_cache,
                   files, raised, new_route, saved>>

\* Shift + left click.
ShiftClick(target) ==
    /\ raised = None
    /\ selected_star' = target
    /\ IF target # None
       THEN center_on_star(Coords(Lookup(stars_df, target)), target)
       ELSE UNCHANGED <<pivot, camera_pos>>
    /\ loaded' = 0 /\ m_history' = <<>>
    /\ UNCHANGED <<catalog, display, rotation, zoom, show, max_distance, distance_lines,
                   star_hop_routes, route_cache, files, raised, new_route, saved>>

\* C: centre on the selected star.
KeyC ==
    /\ raised = None
    /\ IF selected_star # None /\ selected_star \in Names(stars_df)
       THEN center_on_star(Coords(Lookup(stars_df, selected_star)), None)
       ELSE UNCHANGED <<pivot, camera_pos>>
    /\ loaded' = 0 /\ m_history' = <<>>
    /\ UNCHANGED <<catalog, display, selected_star, rotation, zoom, show, max_distance,
                   distance_lines, star_hop_routes, route_cache, files, raised,
                   new_route, saved>>

\* R, 0: _set_sun_as_rotation_center.
KeySun ==
    /\ raised = None
    /\ IF "Sun" \in Names(stars_df)
       THEN /\ selected_star' = "Sun"
            /\ center_on_star(Coords(Lookup(stars_df, "Sun")), "Sun")
       ELSE UNCHANGED <<selected_star, pivot, camera_pos>>
    /\ loaded' = 0 /\ m_history' = <<>>
    /\ UNCHANGED <<catalog, display, rotation, zoom, show, max_distance, distance_lines,
                   star_hop_routes, route_cache, files, raised, new_route, saved>>

\* The name the toggle measures from: always found by coordinates.
MeasureOrigin == FirstAtCenter(stars_df, rotation_center, "Unknown")

\* The toggle reaches "measurement = (rotation_center_name, self.selected_star)".
MeasureActs == selected_star # None /\ selected_star # MeasureOrigin

\* M: toggle the measurement from the rotation centre to the selected star.
KeyM ==
    /\ raised = None
    /\ LET m == Tuple(MeasureOrigin, selected_star)
       IN  IF MeasureActs
           THEN /\ InList(distance_lines, m) \/ Len(distance_lines) < MaxLines
                /\ distance_lines' = toggle_measurement(distance_lines, m)
                /\ m_history' = IF m_history = <<>> THEN <<distance_lines>>
                                ELSE <<m_history[Len(m_history)], distance_lines>>
           ELSE /\ UNCHANGED distance_lines
                /\ m_history' = <<>>
    /\ loaded' = 0
    /\ UNCHANGED <<catalog, display, selected_star, pivot, view, star_hop_routes, route_cache,
                   files, raised, new_route, saved>>

\* A faulty Backspace: the routes are cleared as well.
KeyBackspace_clears_all ==
    /\ raised = None
    /\ distance_lines' = <<>>
    /\ star_hop_routes' = <<>>
    /\ loaded' = 0 /\ m_history' = <<>>
    /\ UNCHANGED <<catalog, display, selected_star, pivot, view, route_cache,
                   files, raised, new_route, saved>>

\* Backspace: clear the measurements.
KeyBackspace ==
    /\ raised = None
    /\ distance_lines' = <<>>
    /\ loaded' = 0 /\ m_history' = <<>>
    /\ UNCHANGED <<catalog, display, selected_star, pivot, view, star_hop_routes, route_cache,
                   files, raised, new_route, saved>>

\* Shift+T: clear the routes.
ShiftT ==
    /\ raised = None
    /\ star_hop_routes' = <<>>
    /\ loaded' = 0 /\ m_history' = <<>>
    /\ UNCHANGED <<catalog, display, selected_star, pivot, view, distance_lines, route_cache,
                   files, raised, new_route, saved>>

\* A faulty CompleteRoute: the destination is added whenever the route does
\* not end there.
CompleteRoute_always(cat, r, sel) ==
    IF r[Len(r)] # sel THEN Append(r, sel) ELSE r

\* What the T handler appends for the planner's result r.
CompleteRoute(cat, r, sel) ==
    IF r[Len(r)] # sel
    THEN IF calculate_distance(Lookup(cat, r[Len(r)]), Lookup(cat, sel)) < final_hop_limit
         THEN r
         ELSE Append(r, sel)
    ELSE r

\* T: plan a route from the rotation centre to the selected star and keep it.
KeyT ==
    /\ raised = None
    /\ Len(star_hop_routes) < MaxRoutes
    /\ loaded' = 0 /\ m_history' = <<>>
    /\ UNCHANGED <<catalog, display, selected_star, pivot, view, distance_lines, files, saved>>
    /\ IF selected_star = None
       THEN UNCHANGED <<star_hop_routes, route_cache, raised, new_route>>
       ELSE IF RouteRaises(stars_df, selected_star, rotation_center_star, rotation_center)
       THEN /\ raised' = "KeyError"
            /\ UNCHANGED <<star_hop_routes, route_cache, new_route>>
       ELSE LET r == calculate_star_hop_route(stars_df, selected_star,
                         rotation_center_star, rotation_center, max_distance)
            IN  /\ new_route' = <<r>>
                /\ route_cache' = RouteCacheAfterPlan(route_cache, stars_df, selected_star,
                                      rotation_center_star, rotation_center)
                /\ star_hop_routes' =
                       IF Len(r) >= 1
                       THEN Append(star_hop_routes, CompleteRoute(stars_df, r, selected_star))
                       ELSE star_hop_routes
                /\ UNCHANGED raised

----------------------------------------------------------------------------
(* Camera input.  Angles are whole hundredths of a radian, pan is in       *)
(* pixels, zoom in thousandths of a pixel per light-year.                  *)

\* 1 when the key is held, else 0.
Held(keys, k) == IF k \in keys THEN 1 ELSE 0

\* "Continuous input for camera movement", the block after the event loop
\* of handle_input: W/S/A/D pan by 5 pixels, Q/E turn by 0.02 rad.
PanAfter(keys) ==
    <<camera_pos[1] + 5 * (Held(keys, "d") - Held(keys, "a")),
      camera_pos[2] + 5 * (Held(keys, "s") - Held(keys, "w"))>>

TurnAfter(keys) ==
    <<rotation[1], rotation[2], rotation[3] + 2 * (Held(keys, "q") - Held(keys, "e"))>>

\* The camera stays within MaxPan pan steps, MaxTurn turns and MaxWheel
\* wheel notches of the constructed view.
PanInRange(pos) == Abs(pos[1]) <= 5 * MaxPan /\ Abs(pos[2]) <= 5 * MaxPan

TurnInRange(rot) ==
    /\ Abs(rot[1]) <= 10 * MaxTurn
    /\ Abs(rot[2]) <= 10 * MaxTurn
    /\ Abs(rot[3]) <= 2 * MaxTurn

ZoomInRange(zm) == Abs(zm - 40000) <= 4400 * MaxWheel

\* A frame's handle_input with no event left: only the held keys act.
HeldKeys(keys) ==
    /\ raised = None
    /\ camera_pos' = PanAfter(keys)
    /\ rotation' = TurnAfter(keys)
    /\ PanInRange(camera_pos') /\ TurnInRange(rotation')
    /\ loaded' = 0 /\ m_history' = <<>>
    /\ UNCHANGED <<catalog, display, selected_star, pivot, zoom, show, max_distance,
                   distance_lines, star_hop_routes, route_cache, files, raised,
                   new_route, saved>>

Min(a, b) == IF a < b THEN a ELSE b

Max(a, b) == IF a < b THEN b ELSE a

\* zoom * 1.1 (button 4) and zoom / 1.1 (button 5), rounded to a thousandth,
\* kept within [5, 400].
ZoomAfter(button) ==
    IF button = 4 THEN Min(400000, (zoom * 11 + 5) \div 10)
    ELSE Max(5000, (zoom * 20 + 11) \div 22)

\* MOUSEBUTTONDOWN with button 4 or 5: with a star selected the wheel also
\* centres on it.
Wheel(button) ==
    /\ raised = None
    /\ zoom' = ZoomAfter(button)
    /\ ZoomInRange(zoom')
    /\ IF selected_star # None /\ selected_star \in Names(stars_df)
       THEN center_on_star(Coords(Lookup(stars_df, selected_star)), None)
       ELSE UNCHANGED <<pivot, camera_pos>>
    /\ loaded' = 0 /\ m_history' = <<>>
    /\ UNCHANGED <<catalog, display, selected_star, rotation, show, max_distance,
                   distance_lines, star_hop_routes, route_cache, files, raised,
                   new_route, saved>>

\* MOUSEMOTION with the left button held: rel = <<rel_x, rel_y>> pixels turn
\* the view by 0.01 rad each.
Drag(rel) ==
    /\ raised = None
    /\ rotation' = <<rotation[1] + rel[2], rotation[2] + rel[1], rotation[3]>>
    /\ TurnInRange(rotation')
    /\ loaded' = 0 /\ m_history' = <<>>
    /\ UNCHANGED <<catalog, display, selected_star, pivot, camera_pos, zoom, show,
                   max_distance, distance_lines, star_hop_routes, route_cache, files,
                   raised, new_route, saved>>

----------------------------------------------------------------------------
(* Projection, the per-frame cache and hit-testing.  Screen positions are  *)
(* in hundredths of a pixel, size factors in thousandths.                  *)

\* The window: self.width, self.height.
width == 1024

height == 768

\* math.sin and math.cos of an angle of a hundredths of a radian, times
\* 10000, by their Taylor polynomials (good to 0.0001 for the angles a drag
\* reaches here; exact at 0).
SinPos(a) == 100 * a - (a * a * a) \div 600 + (a * a * a * a * a) \div 120000000

Sin(a) == IF a < 0 THEN 0 - SinPos(0 - a) ELSE SinPos(a)

Cos(a) == 10000 - (a * a) \div 2 + (a * a * a * a) \div 240000

\* A faulty _world_to_screen: the screen y axis is not inverted.
world_to_screen_y_down(star, rc, rot, zm, cam) ==
    LET rel_x0 == star.x - rc[1]
        rel_y0 == star.y - rc[2]
        rel_z0 == star.z - rc[3]
        rel_y1 == (rel_y0 * Cos(rot[1]) - rel_z0 * Sin(rot[1])) \div 10000
        rel_z1 == (rel_y0 * Sin(rot[1]) + rel_z0 * Cos(rot[1])) \div 10000
        rel_x2 == (rel_x0 * Cos(rot[2]) + rel_z1 * Sin(rot[2])) \div 10000
        rel_z2 == ((0 - rel_x0) * Sin(rot[2]) + rel_z1 * Cos(rot[2])) \div 10000
        rel_x3 == (rel_x2 * Cos(rot[3]) - rel_y1 * Sin(rot[3])) \div 10000
        rel_y3 == (rel_x2 * Sin(rot[3]) + rel_y1 * Cos(rot[3])) \div 10000
    IN  <<width * 50 + (rel_x3 * zm) \div 1000 + cam[1] * 100,
          height * 50 + (rel_y3 * zm) \div 1000 + cam[2] * 100,
          1000 + rel_z2>>

\* _world_to_screen under pivot rc, angles rot, zoom zm and pan cam: the
\* position relative to the pivot is turned about X, then Y, then Z (each
\* product rounded down to a unit) and scaled.
world_to_screen(star, rc, rot, zm, cam) ==
    LET rel_x0 == star.x - rc[1]
        rel_y0 == star.y - rc[2]
        rel_z0 == star.z - rc[3]
        rel_y1 == (rel_y0 * Cos(rot[1]) - rel_z0 * Sin(rot[1])) \div 10000
        rel_z1 == (rel_y0 * Sin(rot[1]) + rel_z0 * Cos(rot[1])) \div 10000
        rel_x2 == (rel_x0 * Cos(rot[2]) + rel_z1 * Sin(rot[2])) \div 10000
        rel_z2 == ((0 - rel_x0) * Sin(rot[2]) + rel_z1 * Cos(rot[2])) \div 10000
        rel_x3 == (rel_x2 * Cos(rot[3]) - rel_y1 * Sin(rot[3])) \div 10000
        rel_y3 == (rel_x2 * Sin(rot[3]) + rel_y1 * Cos(rot[3])) \div 10000
    IN  <<width * 50 + (rel_x3 * zm) \div 1000 + cam[1] * 100,
          height * 50 - (rel_y3 * zm) \div 1000 + cam[2] * 100,
          1000 + rel_z2>>

\* important_stars of _render_stars: the names in measurements and routes.
important_stars(lines, routes) ==
    {lines[i].from : i \in 1..Len(lines)} \cup {lines[i].to : i \in 1..Len(lines)}
    \cup UNION {{routes[i][j] : j \in 1..Len(routes[i])} : i \in 1..Len(routes)}

\* visible_stars: the rows inside the distance filter or important.
visible_stars(cat, maxd, lines, routes) ==
    SelectSeq(cat, LAMBDA star : \/ star.distance_ly <= maxd
                                 \/ star.name \in important_stars(lines, routes))

CacheNames(cache) == {cache[i].name : i \in 1..Len(cache)}

\* _draw_distance_line projects and caches a star that is not cached yet.
CacheMissing(cache, cat, n, rc, rot, zm, cam) ==
    IF n \in CacheNames(cache) THEN cache
    ELSE Append(cache, [name |-> n, pos |-> world_to_screen(Lookup(cat, n), rc, rot, zm, cam)])

\* render draws the gray line from the pivot star to the selected star.
TemporaryLine(cat, sel, rcs, lines) ==
    /\ rcs # None /\ sel # None /\ sel # rcs
    /\ ~InList(lines, Tuple(rcs, sel)) /\ ~InList(lines, Tuple(sel, rcs))
    /\ sel \in Names(cat)

\* screen_coords_cache after render: _render_stars empties it and caches
\* every visible star in row order; the temporary line then adds its two
\* ends when they are missing.  (The ends of measurements and the stars of
\* routes are visible stars, so their lines add nothing.)
RenderCache(cat, sel, rcs, lines, routes, maxd, rc, rot, zm, cam) ==
    LET vis == visible_stars(cat, maxd, lines, routes)
        base == [i \in 1..Len(vis) |->
                    [name |-> vis[i].name, pos |-> world_to_screen(vis[i], rc, rot, zm, cam)]]
    IN  IF TemporaryLine(cat, sel, rcs, lines)
        THEN CacheMissing(CacheMissing(base, cat, rcs, rc, rot, zm, cam),
                          cat, sel, rc, rot, zm, cam)
        ELSE base

\* self.glow_factor, in tenths.
glow_factor == 18

\* hit_size = max(5, star_size * glow_factor) with
\* star_size = 15 - (abs_magnitude + 5) * (13 / 20), in hundredths of a pixel.
hit_size(star) ==
    Max(500, ((150000 - (star.abs_magnitude + 500) * 65) * glow_factor) \div 1000)

\* The squared distance from the click to a cached position, or -1 when the
\* position is not strictly within `size` of the click.
ClickDistance2(pos, at, size) ==
    LET dx == Abs(100 * pos[1] - at[1])
        dy == Abs(100 * pos[2] - at[2])
    IN  IF dx < size /\ dy < size /\ dx * dx + dy * dy < size * size
        THEN dx * dx + dy * dy ELSE 0 - 1

\* A faulty scan: "distance <= closest_distance", so the last of equally
\* near entries wins.
RECURSIVE ClosestScan_last(_, _, _, _, _, _)
ClosestScan_last(cache, i, pos, cat, maxd, best) ==
    IF i > Len(cache) THEN best.name
    ELSE
      LET star == Lookup(cat, cache[i].name)
          d2 == ClickDistance2(pos, cache[i].pos, hit_size(star))
      IN  IF star.distance_ly > maxd THEN ClosestScan_last(cache, i + 1, pos, cat, maxd, best)
          ELSE IF d2 >= 0 /\ (best.name = None \/ d2 <= best.d2)
          THEN ClosestScan_last(cache, i + 1, pos, cat, maxd, [name |-> cache[i].name, d2 |-> d2])
          ELSE ClosestScan_last(cache, i + 1, pos, cat, maxd, best)

\* The loop of _handle_mouse_click over screen_coords_cache.items() from
\* entry i on; best is [name, d2]: closest_star and closest_distance squared
\* (name None while closest_distance is infinite).
RECURSIVE ClosestScan(_, _, _, _, _, _)
ClosestScan(cache, i, pos, cat, maxd, best) ==
    IF i > Len(cache) THEN best.name
    ELSE
      LET star == Lookup(cat, cache[i].name)
          d2 == ClickDistance2(pos, cache[i].pos, hit_size(star))
      IN  IF star.distance_ly > maxd THEN ClosestScan(cache, i + 1, pos, cat, maxd, best)
          ELSE IF d2 >= 0 /\ (best.name = None \/ d2 < best.d2)
          THEN ClosestScan(cache, i + 1, pos, cat, maxd, [name |-> cache[i].name, d2 |-> d2])
          ELSE ClosestScan(cache, i + 1, pos, cat, maxd, best)

\* closest_star for a click at pos (pixels).
closest_star(pos) ==
    ClosestScan(screen_coords_cache, 1, pos, stars_df, max_distance,
                [name |-> None, d2 |-> 0])

\* A faulty MouseClick: every click also sets the rotation centre.
MouseClick_centres(pos, shift) == ShiftClick(closest_star(pos))

\* MOUSEBUTTONDOWN, button 1, at pos: _handle_mouse_click(pos, shift).
MouseClick(pos, shift) ==
    IF shift THEN ShiftClick(closest_star(pos)) ELSE ClickSelect(closest_star(pos))

RECURSIVE AddDistances(_, _, _, _)
AddDistances(cache, cat, pairs, i) ==
    IF i > Len(pairs) THEN cache
    ELSE AddDistances(AddDistance(cache, cat, pairs[i]), cat, pairs, i + 1)

\* The hops of the routes, in drawing order.
RECURSIVE Hops(_, _)
Hops(routes, i) ==
    IF i > Len(routes) THEN <<>>
    ELSE [j \in 1..(Len(routes[i]) - 1) |-> <<routes[i][j], routes[i][j + 1]>>]
         \o Hops(routes, i + 1)

\* The legend entry of a route: total_hop_distance, direct_distance and
\* efficiency (direct / total * 100, here in hundredths of a percent).
route_metrics(cat, route) ==
    LET total == total_distance(cat, route)
        direct == calculate_distance(Lookup(cat, route[1]), Lookup(cat, route[Len(route)]))
    IN  [total_distance |-> total, direct_distance |-> direct,
         efficiency |-> IF total > 0 THEN (direct * 10000) \div total ELSE 10000]

\* A faulty legend loop: the metrics replace an entry that holds none.
RECURSIVE AddMetrics_replacing(_, _, _, _)
AddMetrics_replacing(cache, cat, routes, i) ==
    IF i > Len(routes) THEN cache
    ELSE
      LET route == routes[i]
          next == IF Len(route) < 2 THEN cache
                  ELSE IF route \in DOMAIN cache /\ ~HasDistance(cache, route) THEN cache
                  ELSE IF \E j \in 1..Len(route) : route[j] \notin Names(cat) THEN cache
                  ELSE Store(cache, route, route_metrics(cat, route))
      IN  AddMetrics_replacing(next, cat, routes, i + 1)

\* The legend loop of _draw_star_hop_routes from route i on, "route_key =
\* tuple(route)": a key already in route_cache is read (a KeyError when its
\* entry holds no metrics, caught, nothing stored); otherwise the metrics
\* are computed (an IndexError when a name is not in stars_df, caught,
\* nothing stored) and stored under the key.
RECURSIVE AddMetrics(_, _, _, _)
AddMetrics(cache, cat, routes, i) ==
    IF i > Len(routes) THEN cache
    ELSE
      LET route == routes[i]
          next == IF Len(route) < 2 THEN cache
                  ELSE IF route \in DOMAIN cache THEN cache
                  ELSE IF \E j \in 1..Len(route) : route[j] \notin Names(cat) THEN cache
                  ELSE Store(cache, route, route_metrics(cat, route))
      IN  AddMetrics(next, cat, routes, i + 1)

\* route_cache after render: the measurements (render), the hops of the
\* routes and then the legend (_draw_star_hop_routes), and the temporary
\* line (render); a line or hop is looked up only between two names of the
\* lookup cache.
RenderRouteCache(cache, cat, sel, rcs, lines, routes) ==
    LET known(pairs) == SelectSeq(pairs, LAMBDA p : /\ p[1] \in Names(cat)
                                                    /\ p[2] \in Names(cat))
        temp == IF TemporaryLine(cat, sel, rcs, lines) THEN <<<<rcs, sel>>>> ELSE <<>>
        drawn == AddDistances(cache, cat, known(Pairs(lines)) \o known(Hops(routes, 1)), 1)
    IN  AddDistances(AddMetrics(drawn, cat, routes, 1), cat, temp, 1)

\* The end of a frame: the held keys act (the last block of handle_input)
\* and StarApp.run then calls render, which rebuilds screen_coords_cache
\* under the camera it draws with.  The events of the next frame, each an
\* action of its own, are handled before the next render.
FinishFrame(keys) ==
    /\ raised = None
    /\ camera_pos' = PanAfter(keys)
    /\ rotation' = TurnAfter(keys)
    /\ PanInRange(camera_pos') /\ TurnInRange(rotation')
    /\ screen_coords_cache' =
           RenderCache(stars_df, selected_star, rotation_center_star, distance_lines,
                       star_hop_routes, max_distance, rotation_center, rotation', zoom,
                       camera_pos')
    /\ route_cache' = RenderRouteCache(route_cache, stars_df, selected_star,
                                       rotation_center_star, distance_lines, star_hop_routes)
    /\ loaded' = 0 /\ m_history' = <<>>
    /\ UNCHANGED <<catalog, message, selected_star, pivot, zoom, show, max_distance,
                   distance_lines, star_hop_routes, files, raised, new_route, saved>>

\* The events of a batch: a key press, or a left click that hits `target`.
KeyDown(k) == [type |-> "KEYDOWN", arg |-> k]

Click(target) == [type |-> "MOUSEBUTTONDOWN", arg |-> target]

\* What the event loop of handle_input works on here: the selection, the
\* measurements, and whether handle_input has returned.
InputState ==
    [selected_star |-> selected_star, distance_lines |-> distance_lines,
     returned |-> FALSE]

\* One turn of "for event in events".  The M branch returns True from
\* handle_input when the selected star is the star at the rotation centre;
\* nothing after a return is executed.
HandleEvent(s, e) ==
    IF s.returned THEN s
    ELSE IF e.type = "MOUSEBUTTONDOWN" THEN [s EXCEPT !.selected_star = e.arg]
    ELSE IF e.arg = "m" /\ s.selected_star # None
         THEN IF s.selected_star = MeasureOrigin
              THEN [s EXCEPT !.returned = TRUE]
              ELSE [s EXCEPT !.distance_lines =
                        toggle_measurement(@, Tuple(MeasureOrigin, s.selected_star))]
    ELSE IF e.arg = "backspace" THEN [s EXCEPT !.distance_lines = <<>>]
    ELSE s

RECURSIVE EventLoop(_, _, _)
EventLoop(s, events, i) ==
    IF i > Len(events) THEN s
    ELSE EventLoop(HandleEvent(s, events[i]), events, i + 1)

\* One pass of the loop of StarApp.run with a batch of events and the keys
\* held: handle_input(events) (the event loop, then the held keys unless it
\* has returned), then render.
RunFrame(events, keys) ==
    LET s == EventLoop(InputState, events, 1)
    IN  /\ raised = None
        /\ selected_star' = s.selected_star
        /\ distance_lines' = s.distance_lines
        /\ Len(distance_lines') <= MaxLines
        /\ camera_pos' = IF s.returned THEN camera_pos ELSE PanAfter(keys)
        /\ rotation' = IF s.returned THEN rotation ELSE TurnAfter(keys)
        /\ PanInRange(camera_pos') /\ TurnInRange(rotation')
        /\ screen_coords_cache' =
               RenderCache(stars_df, selected_star', rotation_center_star, distance_lines',
                           star_hop_routes, max_distance, rotation_center, rotation', zoom,
                           camera_pos')
        /\ route_cache' = RenderRouteCache(route_cache, stars_df, selected_star',
                                           rotation_center_star, distance_lines',
                                           star_hop_routes)
        /\ loaded' = 0 /\ m_history' = <<>>
        /\ UNCHANGED <<catalog, message, pivot, zoom, show, max_distance, star_hop_routes,
                       files, raised, new_route, saved>>

\* "+" / "=": max_distance = min(20.0, max_distance + 1.0), within the
\* MaxFilter light-years explored.
KeyPlus ==
    /\ raised = None
    /\ max_distance' = Min(2000, max_distance + 100)
    /\ max_distance' <= 100 * MaxFilter
    /\ loaded' = 0 /\ m_history' = <<>>
    /\ UNCHANGED <<catalog, display, selected_star, pivot, camera_pos, rotation, zoom,
                   show, distance_lines, star_hop_routes, route_cache, files, raised,
                   new_route, saved>>

\* "-": max_distance = max(3.0, max_distance - 1.0).
KeyMinus ==
    /\ raised = None
    /\ max_distance' = Max(300, max_distance - 100)
    /\ loaded' = 0 /\ m_history' = <<>>
    /\ UNCHANGED <<catalog, display, selected_star, pivot, camera_pos, rotation, zoom,
                   show, distance_lines, star_hop_routes, route_cache, files, raised,
                   new_route, saved>>

----------------------------------------------------------------------------
(* View slots: _save_view and _load_view.                                  *)

\* The dictionary _save_view writes, as json.load reads it back.  The keys
\* rotation_center_star, selected_star, distance_lines and star_hop_routes
\* are written only when the value is truthy.
view_data ==
    LET always ==
            [rotation_x |-> rotation[1], rotation_y |-> rotation[2],
             rotation_z |-> rotation[3], camera_pos |-> camera_pos, zoom |-> zoom,
             max_distance |-> max_distance, show |-> show]
        center == IF rotation_center_star # None
                  THEN "rotation_center_star" :> rotation_center_star ELSE <<>>
        sel == IF selected_star # None THEN "selected_star" :> selected_star ELSE <<>>
        lines == IF distance_lines # <<>>
                 THEN "distance_lines" :> JsonLines(distance_lines) ELSE <<>>
        routes == IF star_hop_routes # <<>>
                  THEN "star_hop_routes" :> star_hop_routes ELSE <<>>
    IN  always @@ center @@ sel @@ lines @@ routes

\* A slot file json.load cannot parse.
Unreadable == "not json" :> TRUE

\* A JSON list where a star name belongs (unhashable: "name in
\* self.star_lookup_cache" raises TypeError).
ListName == "<list>"

\* F1..F5, with or without Shift: the save branch of handle_input comes
\* first, so the "elif ... and (K_LSHIFT or K_RSHIFT)" load branch is never
\* reached.
KeyF(slot, shift) ==
    /\ raised = None
    /\ files' = [files EXCEPT ![slot] = view_data]
    /\ message' = "View saved"
    /\ saved' = [saved EXCEPT ![slot] =
                     <<[selected_star |-> selected_star, distance_lines |-> distance_lines,
                        star_hop_routes |-> star_hop_routes, camera_pos |-> camera_pos,
                        rotation |-> rotation, zoom |-> zoom,
                        rotation_center |-> rotation_center]>>]
    /\ loaded' = 0 /\ m_history' = <<>>
    /\ UNCHANGED <<catalog, screen_coords_cache, selected_star, pivot, view,
                   distance_lines, star_hop_routes, route_cache, raised, new_route>>

\* _load_view(slot).  The file is applied key by key inside one try block:
\* an exception on the way leaves the keys before it applied.
LoadView(slot) ==
    /\ raised = None
    /\ m_history' = <<>>
    /\ UNCHANGED <<catalog, screen_coords_cache, route_cache, files, raised, new_route,
                   saved>>
    /\ LET data == files[slot]
           name == Get(data, "rotation_center_star", None)
           known == name # None /\ name \in Names(stars_df)
       IN  IF DOMAIN data = {}
           THEN /\ loaded' = 0
                /\ message' = "No saved view"
                /\ UNCHANGED <<selected_star, pivot, view, distance_lines, star_hop_routes>>
           ELSE IF data = Unreadable
           THEN /\ loaded' = 0
                /\ message' = "Error loading view"
                /\ UNCHANGED <<selected_star, pivot, view, distance_lines, star_hop_routes>>
           ELSE /\ rotation' = <<Get(data, "rotation_x", 0), Get(data, "rotation_y", 0),
                                 Get(data, "rotation_z", 0)>>
                /\ zoom' = Get(data, "zoom", 40000)
                /\ max_distance' = Get(data, "max_distance", 2000)
                /\ show' = Get(data, "show", DefaultShow)
                /\ IF name = ListName
                   THEN /\ loaded' = 0
                        /\ message' = "Error loading view"
                        /\ camera_pos' = Get(data, "camera_pos", <<0, 0>>)
                        /\ UNCHANGED <<selected_star, pivot, distance_lines,
                                       star_hop_routes>>
                   ELSE /\ loaded' = slot
                        /\ message' = "Loaded view"
                        /\ IF known
                           THEN center_on_star(Coords(Lookup(stars_df, name)), name)
                           ELSE /\ camera_pos' = Get(data, "camera_pos", <<0, 0>>)
                                /\ UNCHANGED pivot
                        /\ selected_star' = Get(data, "selected_star", None)
                        /\ distance_lines' = Get(data, "distance_lines", distance_lines)
                        /\ star_hop_routes' = Get(data, "star_hop_routes", star_hop_routes)

\* A view file whose rotation_center_star is a list, as another program or
\* an editor may leave it.
MalformedView ==
    [rotation_x |-> 0, rotation_y |-> 0, rotation_z |-> 50, camera_pos |-> <<7, 7>>,
     zoom |-> 80000, max_distance |-> 2000, show |-> DefaultShow,
     rotation_center_star |-> ListName, selected_star |-> "Far"]

\* A view file left by a session over another catalog.
StaleView ==
    [rotation_x |-> 0, rotation_y |-> 0, rotation_z |-> 0, camera_pos |-> <<0, 0>>,
     zoom |-> 40000, max_distance |-> 2000, show |-> DefaultShow,
     selected_star |-> "Proxima"]

----------------------------------------------------------------------------
(* Specifications.                                                         *)

\* The distance filters the planner is run under: the default 20 ly, and
\* the 3 ly the "-" key lowers it to.
PlanDistances == {300, 2000}

\* A session without view files: selecting, centring, measuring.
SessionCatalogs == {2, 3, 4}

Init ==
    /\ catalog \in SessionCatalogs
    /\ max_distance = 2000
    /\ files = NoFiles
    /\ Constructed

Next ==
    \/ \E target \in Clickable \cup {None} : ClickSelect(target)
    \/ \E target \in Clickable \cup {None} : ShiftClick(target)
    \/ KeyC
    \/ KeySun
    \/ KeyM
    \/ KeyBackspace

Spec == Init /\ [][Next]_vars

\* The planner on its inputs: any catalog, any rotation centre (as
\* constructed, or centred on a star), any selection.
PlanCatalogs == {1, 2, 3, 4, 5, 7}

InitPlan ==
    /\ catalog \in PlanCatalogs
    /\ max_distance \in PlanDistances
    /\ selected_star \in Names(stars_df) \cup {None}
    /\ \/ rotation_center = <<0, 0, 0>> /\ rotation_center_star = None
       \/ \E n \in Names(stars_df) :
              /\ rotation_center = Coords(Lookup(stars_df, n))
              /\ rotation_center_star = n
    /\ files = NoFiles
    /\ Fresh

NextPlan ==
    \/ KeyT
    \/ ShiftT
    \/ KeyM
    \/ KeyBackspace

SpecPlan == InitPlan /\ [][NextPlan]_vars

\* A session with view files, over the two-star catalog; a slot may hold a
\* file from an earlier session.
ViewCatalogs == {5}

InitView ==
    /\ catalog \in ViewCatalogs
    /\ max_distance = 2000
    /\ files \in [Slots -> {<<>>, StaleView}]
    /\ Constructed

NextView ==
    \/ \E target \in Clickable \cup {None} : ClickSelect(target)
    \/ KeyM
    \/ KeyBackspace
    \/ KeyT
    \/ ShiftT
    \/ \E slot \in Slots, shift \in BOOLEAN : KeyF(slot, shift)
    \/ \E slot \in Slots : LoadView(slot)

SpecView == InitView /\ [][NextView]_vars

\* A session that moves the camera and the pivot and uses the view slots,
\* over the two-star catalog; a slot may hold a file this program did not
\* write.
CameraCatalogs == {5}

CameraKeys == {{"d"}, {"a"}, {"q"}}

WheelButtons == {4, 5}

InitCamera ==
    /\ catalog \in CameraCatalogs
    /\ max_distance = 2000
    /\ files \in [Slots -> {<<>>, Unreadable, MalformedView}]
    /\ Constructed

NextCamera ==
    \/ \E target \in Clickable \cup {None} : ClickSelect(target)
    \/ \E target \in Clickable \cup {None} : ShiftClick(target)
    \/ \E keys \in CameraKeys : HeldKeys(keys)
    \/ \E button \in WheelButtons : Wheel(button)
    \/ \E slot \in Slots, shift \in BOOLEAN : KeyF(slot, shift)
    \/ \E slot \in Slots : LoadView(slot)

SpecCamera == InitCamera /\ [][NextCamera]_vars

\* The run loop, frame by frame, over the catalog of stars to click on:
\* the events of a frame in any order and number, then the end of the frame.
FrameCatalogs == {6}

\* Where the pointer clicks: on the Sun (and Alpha), on Dim, 6 pixels right
\* of Dim, 16 pixels below the Sun (where a drag takes Alpha), and on empty
\* sky (in the constructed view).
ClickPoints == {<<512, 384>>, <<520, 384>>, <<526, 384>>, <<512, 400>>, <<100, 100>>}

FrameKeys == {{}, {"d"}}

DragSteps == {<<0, 10>>}

InitFrame ==
    /\ catalog \in FrameCatalogs
    /\ max_distance = 400
    /\ files = NoFiles
    /\ Constructed

NextFrame ==
    \/ \E pos \in ClickPoints, shift \in BOOLEAN : MouseClick(pos, shift)
    \/ \E rel \in DragSteps : Drag(rel)
    \/ KeyMinus
    \/ \E keys \in FrameKeys : FinishFrame(keys)

SpecFrame == InitFrame /\ [][NextFrame]_vars

\* A session that selects, centres and moves the camera with every control,
\* over the same catalog (which star a click hits is left open).
InitPivot ==
    /\ catalog \in FrameCatalogs
    /\ max_distance = 400
    /\ files = NoFiles
    /\ Constructed

NextPivot ==
    \/ \E target \in Clickable \cup {None} : ClickSelect(target)
    \/ \E target \in Clickable \cup {None} : ShiftClick(target)
    \/ KeyC
    \/ KeySun
    \/ \E button \in WheelButtons : Wheel(button)
    \/ \E rel \in DragSteps : Drag(rel)
    \/ \E keys \in CameraKeys : HeldKeys(keys)
    \/ KeyPlus
    \/ KeyMinus

SpecPivot == InitPivot /\ [][NextPivot]_vars

\* A view file left by an earlier session over the same catalog: a
\* measurement and a route.
RouteView ==
    [rotation_x |-> 0, rotation_y |-> 0, rotation_z |-> 0, camera_pos |-> <<0, 0>>,
     zoom |-> 40000, max_distance |-> 2000, show |-> DefaultShow,
     distance_lines |-> <<List("Alpha", "Beta")>>,
     star_hop_routes |-> <<<<"Beta", "Sun">>>>]

\* A session that plans, clears, loads and draws, frame after frame, over
\* the triangle catalog; the clicks go to its two far ends.
CacheCatalogs == {4}

CacheTargets == {"Sun", "Alpha"}

InitCache ==
    /\ catalog \in CacheCatalogs
    /\ max_distance = 2000
    /\ files = [n \in Slots |-> RouteView]
    /\ Constructed

NextCache ==
    \/ \E target \in CacheTargets : ClickSelect(target)
    \/ \E target \in CacheTargets : ShiftClick(target)
    \/ KeyT
    \/ ShiftT
    \/ KeyBackspace
    \/ \E slot \in Slots : LoadView(slot)
    \/ FinishFrame({})

SpecCache == InitCache /\ [][NextCache]_vars

\* The projection on its inputs: any catalog, drawn under a camera that a
\* session reaches with the wheel (the constructed zoom, one notch in, the
\* two limits), a drag, the Q key, a pan step and a centring.
ProjectZooms == {5000, 40000, 44000, 400000}

ProjectRotations == {<<0, 0, 0>>, <<10, 0, 0>>, <<0, 10, 0>>, <<0, 0, 2>>}

ProjectPans == {<<0, 0>>, <<5, 0>>, <<0, 0 - 5>>}

InitProject ==
    /\ catalog \in 1..Len(Catalogs)
    /\ max_distance = 2000
    /\ selected_star = None
    /\ \/ rotation_center = <<0, 0, 0>> /\ rotation_center_star = None
       \/ \E n \in Names(stars_df) :
              /\ rotation_center = Coords(Lookup(stars_df, n))
              /\ rotation_center_star = n
    /\ files = NoFiles
    /\ show = DefaultShow
    /\ distance_lines = <<>>
    /\ star_hop_routes = <<>>
    /\ route_cache = <<>>
    /\ raised = None
    /\ screen_coords_cache = <<>>
    /\ message = None
    /\ new_route = <<>>
    /\ saved = [n \in Slots |-> <<>>]
    /\ loaded = 0
    /\ m_history = <<>>
    /\ zoom \in ProjectZooms
    /\ rotation \in ProjectRotations
    /\ camera_pos \in ProjectPans

NextProject == FinishFrame({})

SpecProject == InitProject /\ [][NextProject]_vars

\* A view file saved by a session that was started with --max-distance 25.
WideView ==
    [rotation_x |-> 0, rotation_y |-> 0, rotation_z |-> 0, camera_pos |-> <<0, 0>>,
     zoom |-> 40000, max_distance |-> 2500, show |-> DefaultShow]

\* A session that adjusts the distance filter, started with one of these
\* --max-distance values (main.py takes any float; StarApp.__init__ passes
\* it on to the visualizer) over a catalog the loader cut at that distance,
\* with a view file to load.
CommandLineDistances == {300, 500, 2000, 2500}

FilterCatalogs == {3, 6, 7}

InitFilter ==
    /\ catalog \in FilterCatalogs
    /\ max_distance \in CommandLineDistances
    /\ \A i \in 1..Len(stars_df) : stars_df[i].distance_ly <= max_distance
    /\ files \in [Slots -> {<<>>, WideView}]
    /\ Constructed

NextFilter ==
    \/ KeyPlus
    \/ KeyMinus
    \/ \E slot \in Slots : LoadView(slot)
    \/ FinishFrame({})

SpecFilter == InitFilter /\ [][NextFilter]_vars

\* The run loop with whole batches of events, over the catalog of three
\* near stars: presses of M and Backspace and clicks on the stars.
BatchCatalogs == {3}

BatchEvents ==
    {KeyDown("m"), KeyDown("backspace")} \cup {Click(target) : target \in Clickable}

Batches == UNION {[1..n -> BatchEvents] : n \in 0..MaxBatch}

BatchKeys == {{}, {"d"}, {"a"}, {"q"}, {"e"}}

InitBatch ==
    /\ catalog \in BatchCatalogs
    /\ max_distance = 2000
    /\ files = NoFiles
    /\ Constructed

NextBatch == \E events \in Batches, keys \in BatchKeys : RunFrame(events, keys)

SpecBatch == InitBatch /\ [][NextBatch]_vars

\* The run loop over the catalog with the binary: clicks on the stars and
\* beside them, M and the end of the frame.
OriginCatalogs == {8}

\* Where the pointer clicks: on the screen centre, 8 pixels right of the
\* binary as seen from the Sun, and on the Sun as seen from the binary.
OriginPoints == {<<512, 384>>, <<680, 384>>, <<352, 384>>}

InitOrigin ==
    /\ catalog \in OriginCatalogs
    /\ max_distance = 2000
    /\ files = NoFiles
    /\ Constructed

NextOrigin ==
    \/ \E pos \in OriginPoints, shift \in BOOLEAN : MouseClick(pos, shift)
    \/ KeyM
    \/ FinishFrame({})

SpecOrigin == InitOrigin /\ [][NextOrigin]_vars

----------------------------------------------------------------------------
(* Properties of the planner and of add-route (SpecPlan).                  *)

\* The planner's origin and destination in the current state.
Origin == PlannerOrigin(stars_df, rotation_center_star, rotation_center)

\* The planner was asked for a route between two different stars.
Planned == new_route # <<>> /\ selected_star # None /\ Origin # None
           /\ Origin # selected_star

\* The routes to look at: the planner's result and every stored route.
Produced == (IF Planned THEN {new_route[1]} ELSE {})
            \cup {star_hop_routes[i] : i \in 1..Len(star_hop_routes)}

Last(r) == r[Len(r)]

DistNames(a, b) == calculate_distance(Lookup(stars_df, a), Lookup(stars_df, b))

\* C1: a route between two different stars has at least 2 and at most 12
\* elements.
C1_RouteLength ==
    Planned => Len(new_route[1]) >= 2 /\ Len(new_route[1]) <= 12

\* The hop loop ran all its iterations: ten hops and the destination.
C1_Witness == Planned /\ Len(new_route[1]) = 12

\* C2: no name appears twice in a route the planner returns or add-route stores.
C2_NoRepeat ==
    \A r \in Produced : \A i, j \in 1..Len(r) : r[i] = r[j] => i = j

\* A stored route with intermediate hops.
C2_Witness == \E i \in 1..Len(star_hop_routes) : Len(star_hop_routes[i]) >= 4

\* C3 as claimed: every route starts at the pivot star and ends at the
\* selected star.
C3_EndsAtDestination ==
    \A r \in Produced : r # <<>> => r[1] = Origin /\ Last(r) = selected_star

\* C3 as amended: every route starts at the pivot star, and ends at the
\* selected star unless the loop made all its max_hops hops and the last of
\* them lies within 0.05 ly of the selected star; the route then ends there.
C3_EndsAtOrBesideDestination ==
    \A r \in Produced : r # <<>> =>
        /\ r[1] = Origin
        /\ \/ Last(r) = selected_star
           \/ /\ Len(r) = 11
              /\ DistNames(Last(r), selected_star) < 5

\* A stored route that stops beside its destination.
C3_Witness ==
    \E i \in 1..Len(star_hop_routes) :
        /\ Last(star_hop_routes[i]) # selected_star
        /\ Len(star_hop_routes[i]) = 11

\* C4: two stars less than 2.0 ly apart are joined directly.
C4_ShortIsDirect ==
    (Planned /\ DistNames(Origin, selected_star) < 200)
        => new_route[1] = <<Origin, selected_star>>

\* A direct route although a third star lies between the two.
C4_Witness ==
    /\ Planned /\ DistNames(Origin, selected_star) < 200
    /\ \E n \in Names(stars_df) :
           /\ DistNames(Origin, n) >= 50 /\ DistNames(n, selected_star) >= 50
           /\ DistNames(Origin, n) + DistNames(n, selected_star)
                  = DistNames(Origin, selected_star)

\* C5: every hop of a route ends strictly closer to the destination than it
\* started.
C5_EveryHopGetsCloser ==
    Planned => \A i \in 1..(Len(new_route[1]) - 1) :
                   DistNames(new_route[1][i + 1], selected_star)
                       < DistNames(new_route[1][i], selected_star)

\* C6: a route is at most max_detour_factor (2.0) times as long as the
\* direct distance.
C6_WithinDetourFactor ==
    Planned => total_distance(stars_df, new_route[1])
                   <= 2 * DistNames(Origin, selected_star)

\* The rows the hop loop may hop to from `route`: inside the distance
\* filter, not an end of the route and not visited, at a hop length within
\* the limits.
HopCandidates(route) ==
    {i \in 1..Len(stars_df) :
        LET hop == DistNames(Last(route), stars_df[i].name)
        IN  /\ stars_df[i].name \notin {Origin, selected_star}
            /\ stars_df[i].distance_ly <= max_distance
            /\ stars_df[i].name \notin {route[j] : j \in 1..Len(route)}
            /\ hop >= 50
            /\ hop * 10 <= DistNames(Origin, selected_star) * 7}

\* Row i is strictly closer to the destination than the end of `route`.
Improves(route, i) ==
    DistNames(stars_df[i].name, selected_star) < DistNames(Last(route), selected_star)

\* The rows the two-phase rule chooses among: the improving candidates if
\* there is one, else all candidates.
HopPool(route) ==
    LET improving == {i \in HopCandidates(route) : Improves(route, i)}
    IN  IF improving # {} THEN improving ELSE HopCandidates(route)

\* Six times the score of the hop from the end of `route` to row i.
HopScore6(route, i) ==
    LET hop == DistNames(Last(route), stars_df[i].name)
        to_end == DistNames(stars_df[i].name, selected_star)
        dist_to_end == DistNames(Last(route), selected_star)
    IN  IF to_end < dist_to_end
        THEN 3 * hop - 2 * (dist_to_end - to_end)
        ELSE 6 * hop + 12 * (to_end - dist_to_end)

\* Row i has the lowest score of the pool and is the first row with it.
WinsHop(route, i) ==
    /\ i \in HopPool(route)
    /\ \A j \in HopPool(route) :
           \/ HopScore6(route, i) < HopScore6(route, j)
           \/ HopScore6(route, i) = HopScore6(route, j) /\ i <= j

\* The route up to its k-th star.
Prefix(r, k) == SubSeq(r, 1, k)

C26_HopLengthWithinLimits ==
    Planned =>
        \A k \in 1..(Len(new_route[1]) - 1) :
            new_route[1][k + 1] # selected_star
                => LET hop == DistNames(new_route[1][k], new_route[1][k + 1])
                   IN  /\ hop >= 50
                       /\ hop * 10 <= DistNames(Origin, selected_star) * 7

\* A route with intermediate stops from a star that has a catalog entry
\* nearer than 0.5 ly (the other star of the binary), which it does not
\* hop to.
C26_Witness ==
    /\ Planned /\ Len(new_route[1]) >= 3
    /\ \E n \in Names(stars_df) \ {Origin, selected_star} :
           /\ DistNames(Origin, n) < 50
           /\ \A k \in 1..Len(new_route[1]) : new_route[1][k] # n

\* C27: every star of a route other than its origin and its destination is
\* a catalog entry within max_distance of the Sun.
C27_StopsInsideFilter ==
    Planned =>
        \A k \in 2..Len(new_route[1]) :
            new_route[1][k] # selected_star
                => /\ new_route[1][k] \in Names(stars_df)
                   /\ new_route[1][k] # Origin
                   /\ Lookup(stars_df, new_route[1][k]).distance_ly <= max_distance

\* A route with an intermediate stop planned under the 3 ly filter while
\* the catalog has other stars beyond 3 ly.
C27_Witness ==
    /\ Planned /\ Len(new_route[1]) >= 3
    /\ max_distance = 300
    /\ new_route[1][2] # selected_star
    /\ \E n \in Names(stars_df) \ {Origin, selected_star} :
           Lookup(stars_df, n).distance_ly > max_distance

\* C14: add-route with a selected star other than the pivot star appends
\* the planner's route for (pivot, selected) to the end of the routes and
\* leaves the earlier routes, the measurements, the selection, the pivot and
\* the camera as they were; with no star selected, or with the pivot star
\* selected, it changes nothing.
C14_AddRouteAppendsOne ==
    [][KeyT =>
          /\ UNCHANGED <<distance_lines, selected_star, pivot, view>>
          /\ (selected_star \in Names(stars_df) /\ selected_star # Origin)
                 => star_hop_routes' =
                        Append(star_hop_routes,
                               calculate_star_hop_route(stars_df, selected_star,
                                   rotation_center_star, rotation_center, max_distance))
          /\ (selected_star = None \/ selected_star = Origin)
                 => UNCHANGED <<star_hop_routes, route_cache, files, raised>>]_vars

\* A second route, with intermediate hops, was added behind the first.
C14_Witness ==
    /\ Len(star_hop_routes) = 2
    /\ Len(star_hop_routes[2]) >= 3
    /\ selected_star # Origin

\* C17: clear-measurements empties the measurements and leaves the routes
\* as they were, clear-routes empties the routes and leaves the measurements
\* as they were, and neither changes the selection, the pivot, the camera or
\* the session caches.
C17_ClearsOnlyItsList ==
    [][/\ KeyBackspace => /\ distance_lines' = <<>>
                          /\ UNCHANGED <<star_hop_routes, selected_star, pivot, view,
                                         route_cache, screen_coords_cache>>
       /\ ShiftT => /\ star_hop_routes' = <<>>
                    /\ UNCHANGED <<distance_lines, selected_star, pivot, view,
                                   route_cache, screen_coords_cache>>]_vars

\* A route was planned and stored and the routes are empty again, so
\* clear-routes has acted; the measurement and the cached distance are
\* still there.
C17_Witness ==
    /\ Planned /\ Len(new_route[1]) >= 2
    /\ star_hop_routes = <<>>
    /\ distance_lines # <<>>
    /\ route_cache # <<>>

----------------------------------------------------------------------------
(* Properties of the session with view files (SpecView).                   *)

\* C7: add-route never raises; no exception leaves handle_input.
C7_NeverRaises == raised = None

\* The pair the toggle works on in the current state.
MeasuredPair == <<MeasureOrigin, selected_star>>

Count(pairs, p) == Cardinality({i \in 1..Len(pairs) : pairs[i] = p})

\* C8: the toggle removes the ordered pair (P, S) when it is in the list and
\* otherwise appends it, and never leaves two copies of it in the list.
C8_ToggleRemovesOrAppends ==
    m_history # <<>> =>
        LET before == Pairs(Last(m_history))
            after == Pairs(distance_lines)
        IN  /\ Count(before, MeasuredPair) > 0
                => Count(after, MeasuredPair) = Count(before, MeasuredPair) - 1
            /\ Count(before, MeasuredPair) = 0 => after = Append(before, MeasuredPair)
            /\ Count(after, MeasuredPair) <= 1

\* The values a slot was saved with.
SavedIn(slot) == saved[slot][1]

\* C10: loading a slot that was saved in this session brings back the
\* selected star, the measurements and the routes it was saved with (same
\* names in the same order; a measurement may come back as a list).
C10_LoadRestoresSaved ==
    (loaded # 0 /\ saved[loaded] # <<>>) =>
        /\ selected_star = SavedIn(loaded).selected_star
        /\ Pairs(distance_lines) = Pairs(SavedIn(loaded).distance_lines)
        /\ star_hop_routes = SavedIn(loaded).star_hop_routes

----------------------------------------------------------------------------
(* Properties of the measurement toggle (Spec).                            *)

\* C9 as claimed: two toggles in a row leave distance_lines as it was.
C9_TwoTogglesRestore ==
    Len(m_history) = 2 => distance_lines = m_history[1]

\* C9 as amended: two toggles in a row leave distance_lines as it was when
\* the measurement was not in the list or was its last element; when it stood
\* earlier in the list the two toggles move it to the end, the others keeping
\* their order.
C9_TwoTogglesRestoreOrMoveLast ==
    Len(m_history) = 2 =>
        LET before == m_history[1]
            m == Tuple(MeasureOrigin, selected_star)
            others == SelectSeq(before, LAMBDA x : x # m)
        IN  IF ~InList(before, m) \/ Last(before) = m
            THEN distance_lines = before
            ELSE distance_lines = Append(others, m)

\* Two toggles in a row of a measurement that stood first of two.
C9_Witness ==
    /\ Len(m_history) = 2
    /\ Len(m_history[1]) = 2
    /\ m_history[1][1] = Tuple(MeasureOrigin, selected_star)

----------------------------------------------------------------------------
(* Properties of the camera and the view slots (SpecCamera).               *)

\* C11: loading a slot that was saved in this session brings back the three
\* rotation angles, the pivot, the pan offset and the zoom it was saved with.
C11_LoadRestoresCamera ==
    (loaded # 0 /\ saved[loaded] # <<>>) =>
        /\ rotation = SavedIn(loaded).rotation
        /\ rotation_center = SavedIn(loaded).rotation_center
        /\ camera_pos = SavedIn(loaded).camera_pos
        /\ zoom = SavedIn(loaded).zoom

\* C12: an F-key event with Shift held loads the slot (the live state comes
\* from the slot and the slot file is left as it was); without Shift it
\* saves the live state into the slot.
C12_ShiftFLoads ==
    [][\A slot \in Slots :
           /\ KeyF(slot, TRUE) => files' = files /\ message' # "View saved"
           /\ KeyF(slot, FALSE) => files'[slot] = view_data /\ message' = "View saved"]_vars

\* The live state a load may replace.
live == <<selected_star, rotation_center, rotation_center_star, camera_pos, rotation,
          zoom, show, max_distance, distance_lines, star_hop_routes>>

\* C13: a load that does not succeed (the slot is absent, or its content
\* cannot be read or applied) returns a status string and leaves every field
\* of the live state as it was.
C13_FailedLoadChangesNothing ==
    [][\A slot \in Slots :
           (LoadView(slot) /\ message' # "Loaded view")
               => /\ message' \in {"No saved view", "Error loading view"}
                  /\ live' = live]_vars

----------------------------------------------------------------------------
(* Properties of clicks, pivot and cache, frame by frame (SpecFrame).      *)

\* C15: a plain left click sets the selection to the star it picks (or to
\* None) and leaves the pivot point, the pivot star, the pan offset, the
\* rotation angles, the measurements and the routes as they were.
C15_SelectOnlySelects ==
    [][\A pos \in ClickPoints :
           MouseClick(pos, FALSE)
               => /\ selected_star' = closest_star(pos)
                  /\ selected_star' \in CacheNames(screen_coords_cache) \cup {None}
                  /\ UNCHANGED <<pivot, camera_pos, rotation, distance_lines,
                                 star_hop_routes>>]_vars

\* A star other than the pivot star is selected while the view is panned:
\* the click that selected it left pivot and pan alone.
C15_Witness ==
    /\ selected_star \in Names(stars_df)
    /\ rotation_center_star # None
    /\ selected_star # rotation_center_star
    /\ camera_pos # <<0, 0>>

C18_RResetsRotation == [][KeySun => rotation' = <<0, 0, 0>>]_vars

\* The cache entries a click at pos can select: inside the distance filter
\* and nearer to the click than their hit radius.
Qualifying(pos) ==
    {i \in 1..Len(screen_coords_cache) :
        LET star == Lookup(stars_df, screen_coords_cache[i].name)
        IN  /\ star.distance_ly <= max_distance
            /\ ClickDistance2(pos, screen_coords_cache[i].pos, hit_size(star)) >= 0}

\* The squared click distance of cache entry i.
EntryDistance2(pos, i) ==
    ClickDistance2(pos, screen_coords_cache[i].pos,
                   hit_size(Lookup(stars_df, screen_coords_cache[i].name)))

\* Cache entry i lies inside the filter and exactly under the click.
UnderClick(pos, i) ==
    /\ Lookup(stars_df, screen_coords_cache[i].name).distance_ly <= max_distance
    /\ screen_coords_cache[i].pos[1] = 100 * pos[1]
    /\ screen_coords_cache[i].pos[2] = 100 * pos[2]

\* C19 as claimed: a click exactly on the projected position of a cached
\* star inside the filter selects that star; in general the click selects an
\* entry of minimum click distance among the qualifying entries, and None
\* when no entry qualifies.
C19_ClickOnStarSelectsIt ==
    [][\A pos \in ClickPoints, shift \in BOOLEAN :
           MouseClick(pos, shift)
               => /\ \A i \in 1..Len(screen_coords_cache) :
                         UnderClick(pos, i) => selected_star' = screen_coords_cache[i].name
                  /\ IF Qualifying(pos) = {} THEN selected_star' = None
                     ELSE \E i \in Qualifying(pos) :
                              /\ selected_star' = screen_coords_cache[i].name
                              /\ \A j \in Qualifying(pos) :
                                     EntryDistance2(pos, i) <= EntryDistance2(pos, j)]_vars

\* C19 as amended: the click selects the first-cached entry of minimum click
\* distance among the qualifying entries, and None when no entry qualifies;
\* so a click exactly on the projected position of a cached star inside the
\* filter selects that star unless an entry cached before it, inside the
\* filter, has the same projected position.
C19_ClickSelectsFirstNearest ==
    [][\A pos \in ClickPoints, shift \in BOOLEAN :
           MouseClick(pos, shift)
               => /\ \A i \in 1..Len(screen_coords_cache) :
                         (/\ UnderClick(pos, i)
                          /\ \A j \in 1..(i - 1) : ~UnderClick(pos, j))
                             => selected_star' = screen_coords_cache[i].name
                  /\ IF Qualifying(pos) = {} THEN selected_star' = None
                     ELSE \E i \in Qualifying(pos) :
                              /\ selected_star' = screen_coords_cache[i].name
                              /\ \A j \in Qualifying(pos) :
                                     \/ EntryDistance2(pos, i) < EntryDistance2(pos, j)
                                     \/ /\ EntryDistance2(pos, i) = EntryDistance2(pos, j)
                                        /\ i <= j]_vars

\* Alpha was selected by a click while the Sun, cached after it, had the
\* same projected position (the view was never turned).
C19_Witness ==
    /\ selected_star = "Alpha"
    /\ rotation = <<0, 0, 0>>
    /\ \E i, j \in 1..Len(screen_coords_cache) :
           /\ i < j
           /\ screen_coords_cache[i].name = "Alpha"
           /\ screen_coords_cache[j].name = "Sun"
           /\ screen_coords_cache[i].pos[1] = screen_coords_cache[j].pos[1]
           /\ screen_coords_cache[i].pos[2] = screen_coords_cache[j].pos[2]

\* The screen position (x, y) of a projection.
ScreenXY(p) == <<p[1], p[2]>>

\* C20: whenever a click reads screen_coords_cache, every cached screen
\* position is the projection of its star under the camera in force at that
\* moment.
C20_CacheIsCurrentWhenRead ==
    [][\A pos \in ClickPoints, shift \in BOOLEAN :
           MouseClick(pos, shift)
               => \A i \in 1..Len(screen_coords_cache) :
                      ScreenXY(screen_coords_cache[i].pos) =
                          ScreenXY(world_to_screen(
                                       Lookup(stars_df, screen_coords_cache[i].name),
                                       rotation_center, rotation, zoom, camera_pos))]_vars

----------------------------------------------------------------------------
(* Properties of the session cache (SpecCache).                            *)

\* The entry under `key` holds the three route metrics.
HasMetrics(cache, key) ==
    /\ key \in DOMAIN cache
    /\ {"total_distance", "direct_distance", "efficiency"} \subseteq DOMAIN cache[key]

\* C21: after a frame has drawn the routes, every route of two or more
\* catalog names, direct two-star routes included, has an entry under its
\* own sequence of names that holds the total hop distance (the sum of the
\* consecutive distances), the direct distance and the efficiency.
C21_RoutesHaveMetrics ==
    [][FinishFrame({}) =>
          \A i \in 1..Len(star_hop_routes) :
              LET route == star_hop_routes[i]
              IN  (Len(route) >= 2 /\ \A j \in 1..Len(route) : route[j] \in Names(stars_df))
                      => /\ HasMetrics(route_cache', route)
                         /\ route_cache'[route].total_distance = total_distance(stars_df, route)
                         /\ route_cache'[route].direct_distance =
                                DistNames(route[1], Last(route))]_vars

\* C22: no two different stars have a distance stored under both orders
\* of their names.
C22_OneKeyPerPair ==
    \A a, b \in Names(stars_df) :
        a # b => ~(HasDistance(route_cache, <<a, b>>) /\ HasDistance(route_cache, <<b, a>>))

\* A distance is stored under one order of a pair and a route of the other
\* order was planned and drawn (its legend entry is under the other key).
C22_Witness ==
    \E a, b \in Names(stars_df) :
        /\ a # b
        /\ HasDistance(route_cache, <<a, b>>)
        /\ HasMetrics(route_cache, <<b, a>>)
        /\ new_route = <<<<b, a>>>>

\* C23: a key of the session cache stays, with the entry it was stored
\* with, whatever happens next.
C23_CacheAppendOnly ==
    [][\A key \in DOMAIN route_cache :
           key \in DOMAIN route_cache' /\ route_cache'[key] = route_cache[key]]_vars

\* The routes were cleared, a view was loaded and its measurement cleared,
\* and the entries of the planned and of the loaded route are all there.
C23_Witness ==
    /\ star_hop_routes = <<>>
    /\ distance_lines = <<>>
    /\ HasMetrics(route_cache, <<"Sun", "Beta", "Alpha">>)
    /\ <<"Beta", "Sun">> \in DOMAIN route_cache
    /\ HasDistance(route_cache, <<"Alpha", "Beta">>)

----------------------------------------------------------------------------
(* Properties of the projection (SpecProject).                             *)

\* The identity camera state: no rotation, pivot at the origin, no pan.
IdentityCamera ==
    rotation = <<0, 0, 0>> /\ rotation_center = <<0, 0, 0>> /\ camera_pos = <<0, 0>>

\* C24: under the identity camera state a star at P is drawn at
\* (width/2 + P.x * zoom, height/2 - P.y * zoom) with size factor
\* 1 + P.z * 0.1.
C24_IdentityProjection ==
    IdentityCamera =>
        \A i \in 1..Len(screen_coords_cache) :
            LET P == Lookup(stars_df, screen_coords_cache[i].name)
            IN  screen_coords_cache[i].pos =
                    <<(width * 100) \div 2 + (P.x * zoom) \div 1000,
                      (height * 100) \div 2 - (P.y * zoom) \div 1000,
                      1000 + P.z>>

\* A zoomed frame under the identity camera state with a star above and in
\* front of the pivot.
C24_Witness ==
    /\ IdentityCamera
    /\ zoom # 40000
    /\ \E i \in 1..Len(screen_coords_cache) :
           LET P == Lookup(stars_df, screen_coords_cache[i].name)
           IN  P.y > 0 /\ P.z > 0

----------------------------------------------------------------------------
(* Properties of the distance filter (SpecFilter).                         *)

\* C28: after a "+" or "-" key the distance filter lies between 3.0 and
\* 20.0 light-years, whatever it was before.
C28_AdjustedFilterInRange ==
    [][(KeyPlus \/ KeyMinus) => (max_distance' >= 300 /\ max_distance' <= 2000)]_vars

----------------------------------------------------------------------------
(* Properties of a batch of events (SpecBatch).                            *)

\* Event i of the batch is an M press that changes nothing: when it is
\* handled, the selected star is the star at the rotation centre.
NoOpToggleAt(events, i) ==
    LET s == EventLoop(InputState, SubSeq(events, 1, i - 1), 1)
    IN  /\ events[i] = KeyDown("m")
        /\ ~s.returned
        /\ s.selected_star # None
        /\ s.selected_star = MeasureOrigin

\* The batch without its event i.
Without(events, i) == SubSeq(events, 1, i - 1) \o SubSeq(events, i + 1, Len(events))

\* What handle_input leaves for a batch and the keys held.
Outcome(events, keys) ==
    LET s == EventLoop(InputState, events, 1)
    IN  <<s.selected_star, s.distance_lines,
          IF s.returned THEN camera_pos ELSE PanAfter(keys),
          IF s.returned THEN rotation ELSE TurnAfter(keys)>>

\* C29: an M press that changes nothing because the selected star is the
\* pivot star does not affect the rest of the frame: the batch leaves what
\* the same batch without that event would leave, the other events and the
\* held pan and rotation keys all being handled.
C29_NoOpToggleTransparent ==
    [][\A events \in Batches, keys \in BatchKeys :
           RunFrame(events, keys)
               => \A i \in 1..Len(events) :
                      NoOpToggleAt(events, i)
                          => <<selected_star', distance_lines', camera_pos', rotation'>>
                                 = Outcome(Without(events, i), keys)]_vars

----------------------------------------------------------------------------
(* Properties of the origin of measurements and routes (SpecOrigin).       *)

\* C30: M and T agree on the origin: whenever a pivot star is set, the pair
\* that M adds starts at the pivot star, which is also the star the route
\* of T starts from, even when other rows share the pivot's coordinates.
C30_SameOrigin ==
    [][(KeyM /\ rotation_center_star # None /\ Len(distance_lines') > Len(distance_lines))
           => LET from_name == distance_lines'[Len(distance_lines')].from
              IN  /\ from_name = rotation_center_star
                  /\ from_name = PlannerOrigin(stars_df, rotation_center_star,
                                               rotation_center)]_vars

=============================================================================
